---- MODULE Spec2Model ----
(***************************************************************************)
(* A model of the Untappd synchronisation scripts.                         *)
(*   beer_database.py       the sync run: paginated list fetch, freshness  *)
(*                          gate, detail fetch, upsert, commit per beer    *)
(*   single_field_lookup.py the maintenance run that fills in brewery_id   *)
(* The remote API and the PostgreSQL store are the environment: the API    *)
(* answers every call with a status and an optional X-Ratelimit-Remaining  *)
(* header; the store is a table of rows seen through one connection with   *)
(* an implicit transaction (psycopg2 opens it at the first statement and   *)
(* NOW() is the start time of that transaction). The clock is logical: it  *)
(* moves on at every commit, so that transactions that follow one another  *)
(* read different NOW(), and a check-in is stamped with the clock's value.  *)
(***************************************************************************)
EXTENDS Integers, Sequences, FiniteSets, TLC

\* ------------------------------------------------------------- bounds
NBeers == 2        \* beer identities of the sync model
MaxClock == 3      \* commits per behaviour: the clock stops here
MaxRuns == 2       \* sync runs per behaviour
MaxThrottle == 1   \* throttled responses per request
MaxCheckins == 2   \* check-ins per behaviour
MaxItems == 51     \* list length of the pagination model
MaxPages == 3      \* list calls after which the termination model stops looking
MaxEntries == 3    \* list length of the model with repeated beers
MaxCount == 2      \* check-in count of a list entry in that model

\* ------------------------------------------------- program constants
PageSize == 25     \* "if len(beers) < 25" and "offset += 25"
DefaultRemaining == 1  \* response.headers.get("X-Ratelimit-Remaining", 1)
NULL == 0          \* brewery_id IS NULL

Beers == 1..NBeers
Statuses == {200, 429, 500}       \* success, throttled, any other HTTP error
Headers == {<<>>, <<0>>, <<5>>}   \* X-Ratelimit-Remaining absent, "0", "5"
\* All three fetch functions sleep and call again on "status_code == 429"
\* whatever the header says, so a 429 is enumerated once, without the header;
\* the other statuses come with every header.
HeadersOf(status) == IF status = 429 THEN {<<>>} ELSE Headers

VARIABLES
  now,             \* the clock (UTC instant)
  remote,          \* the list endpoint's data: the user's rated beers
  db,              \* the committed rows of table beers
  work,            \* the rows as the open connection sees them
  tx,              \* <<>> or <<start time of the open transaction>>
  conn,            \* "none", "open", "closed"
  script,          \* "none", "sync", "maint"
  pc,              \* position of the running script
  offset,          \* fetch_rated_beers: offset
  all_beers,       \* fetch_rated_beers: all_beers; then main's rated_beers
  idx,             \* position of the for loop
  payload,         \* <<>> or <<what fetch_beer_details returned>>
  beers_to_update, \* single_field_lookup.main: beers_to_update
  reqLog,          \* history: the responses to the current request
  pageLog,         \* history: the offsets of the list calls of this fetch
  run,             \* history: the current sync run
  prev,            \* history: the previous sync run
  exited,          \* <<>> or <<how the last beer_database process ended>>
  closes,          \* history: connection.close() calls on the current connection
  breweries,       \* the committed rows of the producers' table
  endless,         \* the list endpoint has a full page at every offset
  peer,            \* a second single_field_lookup process on the same table
  moved,           \* the beers the API has moved to another brewery
  failed           \* history: the rows of this maintenance run whose pass raised

vars == <<now, remote, db, work, tx, conn, script, pc, offset, all_beers,
          idx, payload, beers_to_update, reqLog, pageLog, run, prev,
          exited, closes, breweries, endless, peer, moved, failed>>

store == <<db, work, tx>>
locals == <<offset, all_beers, idx, payload, beers_to_update>>
more == <<exited, closes, breweries, endless, peer, moved, failed>>

\* --------------------------------------------------------- helpers
Last(s) == s[Len(s)]
Min(a, b) == IF a < b THEN a ELSE b
Range(s) == {s[k] : k \in 1..Len(s)}
RowsOf(view, b) == {r \in view : r.beer_id = b}

\* recent_created_at is local wall time with its UTC offset ("... +0100")
Stamp(utcInstant, off) == [local |-> utcInstant + off, off |-> off]
\* (mutant) the offset applied with the wrong sign
astimezone_utc_wrong_sign(stamp) == stamp.local + stamp.off
\* datetime.strptime(..., "%z").astimezone(utc)
astimezone_utc(stamp) == stamp.local - stamp.off
TzOf(b) == b % 2

\* int(response.headers.get("X-Ratelimit-Remaining", 1))
remaining(h) == IF h = <<>> THEN DefaultRemaining ELSE h[1]

\* (mutant) no 429 test before raise_for_status
list_rate_limited_never(status, h) == FALSE
\* fetch_rated_beers: if response.status_code == 429
list_rate_limited(status, h) == status = 429
\* (mutant) a remaining quota of one is taken for exhausted
rate_limited_le1(status, h) == status = 429 \/ remaining(h) <= 1
\* beer_database.fetch_beer_details: status_code == 429 or remaining == 0
rate_limited(status, h) == status = 429 \/ remaining(h) = 0
\* single_field_lookup.fetch_beer_details: if response.status_code == 429
lookup_rate_limited(status, h) == status = 429
\* response.raise_for_status() raises on every 4xx and 5xx
raises(status) == status >= 400
\* (mutant) only an empty page is taken for the last one
last_page_empty(beers) == Len(beers) = 0
\* (mutant) a full page is taken for the last one
last_page_le(beers) == Len(beers) <= PageSize
\* fetch_rated_beers: if len(beers) < 25: break
last_page(beers) == Len(beers) < PageSize

\* the list endpoint: at most PageSize entries from offset on; an endless
\* endpoint has PageSize entries at every offset
Page(off) ==
  IF endless
  THEN [k \in 1..PageSize |-> [bid |-> off + k, recent_created_at |-> Stamp(0, TzOf(off + k)),
                                count |-> 1]]
  ELSE SubSeq(remote, off + 1, Min(off + PageSize, Len(remote)))
\* the detail endpoint's body for a beer
BreweryOf(b) == b + 10 + (IF b \in moved THEN 10 ELSE 0)
\* stats.total_count of a beer moves with every check-in
TotalCount(b) == LET n[k \in 0..Len(remote)] ==
                       IF k = 0 THEN 0
                       ELSE n[k - 1] + (IF remote[k].bid = b THEN remote[k].count ELSE 0)
                 IN n[Len(remote)]
Body(b) == [bid |-> b, total_count |-> TotalCount(b), brewery_id |-> BreweryOf(b)]

NewRun(n) == [no |-> n, failedAt |-> 0, httpErr |-> FALSE, committed |-> {},
              skipped |-> {}, stable |-> TRUE, outcome |-> "running"]
NoRun == [NewRun(0) EXCEPT !.outcome = "none"]
\* the second maintenance process when it is not running
NoPeer == [pc |-> "idle", beers_to_update |-> <<>>, idx |-> 0]
\* what a finished run leaves for the next one to be compared with
Summary(r) == [r EXCEPT !.failedAt = 0, !.httpErr = FALSE, !.skipped = {}]
Checkins == LET n[k \in 0..Len(remote)] == IF k = 0 THEN 0 ELSE n[k - 1] + remote[k].count
            IN n[Len(remote)]

\* the responses of the request in progress: a response that ends the request
\* (done) is followed by the first response of the next request
Logged(e) == IF reqLog /= <<>> /\ Last(reqLog).done THEN <<e>> ELSE Append(reqLog, e)
Throttles == IF reqLog /= <<>> /\ Last(reqLog).done THEN 0 ELSE Len(reqLog)

\* ----------------------------------------------------------- storage
\* SELECT beer_id, record_updated_at FROM beers WHERE beer_id = %s; fetchone()
fetch_beer_from_db(view, beer_id) ==
  LET hit == {r \in view : r.beer_id = beer_id}
  IN IF hit = {} THEN <<>> ELSE <<CHOOSE r \in hit : TRUE>>

\* (mutant) a plain INSERT into a table without the key
upsert_beer_insert_only(view, beer_data, user_data, nowTx) ==
  view \cup {[beer_id |-> beer_data.beer_id, total_count |-> beer_data.total_count,
               user_recent_checkin |-> user_data.user_recent_checkin,
               user_checkin_count |-> user_data.user_checkin_count,
               record_updated_at |-> nowTx, brewery_id |-> NULL]}

\* (mutant) ON CONFLICT leaves record_updated_at as it was
upsert_beer_keep_stamp(view, beer_data, user_data, nowTx) ==
  LET old == {r \in view : r.beer_id = beer_data.beer_id}
      new(brewery, stamp) ==
        [beer_id |-> beer_data.beer_id, total_count |-> beer_data.total_count,
         user_recent_checkin |-> user_data.user_recent_checkin,
         user_checkin_count |-> user_data.user_checkin_count,
         record_updated_at |-> stamp, brewery_id |-> brewery]
  IN IF old = {} THEN view \cup {new(NULL, nowTx)}
     ELSE (view \ old) \cup {new(r.brewery_id, r.record_updated_at) : r \in old}

\* INSERT ... ON CONFLICT (beer_id) DO UPDATE SET <every passed column>,
\* record_updated_at = NOW(); brewery_id is not among the columns
upsert_beer(view, beer_data, user_data, nowTx) ==
  LET old == {r \in view : r.beer_id = beer_data.beer_id}
      new(brewery) == [beer_id |-> beer_data.beer_id, total_count |-> beer_data.total_count,
                       user_recent_checkin |-> user_data.user_recent_checkin,
                       user_checkin_count |-> user_data.user_checkin_count,
                       record_updated_at |-> nowTx, brewery_id |-> brewery]
  IN IF old = {} THEN view \cup {new(NULL)}
     ELSE (view \ old) \cup {new(r.brewery_id) : r \in old}

\* UPDATE beers SET brewery_id = %s WHERE beer_id = %s
update_brewery_id(view, beer_id, brewery_id) ==
  {IF r.beer_id = beer_id THEN [r EXCEPT !.brewery_id = brewery_id] ELSE r : r \in view}

\* the orders in which a SELECT without ORDER BY may return a set of keys
Orders(S) == {q \in [1..Cardinality(S) -> S] : Range(q) = S}

\* (mutant) no freshness test: every item is fetched again
up_to_date_never(db_beer, rated_beer) == FALSE

\* (mutant) a row as old as the check-in counts as stale
up_to_date_strict(db_beer, rated_beer) ==
  db_beer /= <<>> /\ db_beer[1].record_updated_at > rated_beer.recent_created_at.local - rated_beer.recent_created_at.off
\* the freshness test of main: db_updated_at >= api_recent_checkin
up_to_date(db_beer, rated_beer) ==
  db_beer /= <<>> /\ db_beer[1].record_updated_at >= astimezone_utc(rated_beer.recent_created_at)

\* ------------------------------------------------------- environment
\* the user checks a beer in: its list entry is created or updated
Checkin(b) ==
  /\ Checkins < MaxCheckins
  /\ LET have == {k \in 1..Len(remote) : remote[k].bid = b}
         stamp == Stamp(now, TzOf(b))
     IN IF have = {}
        THEN remote' = Append(remote, [bid |-> b, recent_created_at |-> stamp, count |-> 1])
        ELSE \E k \in have :
               /\ remote' = [remote EXCEPT ![k] = [bid |-> b, recent_created_at |-> stamp,
                                                   count |-> remote[k].count + 1]]
  /\ run' = [run EXCEPT !.stable = FALSE]
  /\ prev' = [prev EXCEPT !.stable = FALSE]
  /\ UNCHANGED <<now, store, conn, script, pc, locals, reqLog, pageLog>>
  /\ UNCHANGED more

\* the API moves a beer to another brewery: brewery.brewery_id of its detail changes
Move(b) ==
  /\ b \notin moved
  /\ moved' = moved \cup {b}
  /\ UNCHANGED <<now, remote, store, conn, script, pc, locals, reqLog, pageLog, run, prev,
                 exited, closes, breweries, endless, peer, failed>>

\* ------------------------------------------------- fetch_rated_beers
\* one pass of the while loop: a list call and what the code does with its response
fetch_rated_beers(status, h) ==
  /\ script = "sync" /\ pc = "list"
  /\ LET throttled == list_rate_limited(status, h)
         beers == Page(offset)
     IN /\ throttled => Throttles < MaxThrottle
        /\ reqLog' = Logged([fn |-> "list", arg |-> offset, status |-> status, h |-> h,
                             body |-> beers, done |-> ~throttled])
        /\ pageLog' = Append(pageLog, [offset |-> offset, status |-> status])
        /\ IF throttled
           THEN UNCHANGED <<offset, all_beers, idx, pc, run>>
           ELSE IF raises(status)
           THEN /\ pc' = "except"
                /\ run' = [run EXCEPT !.httpErr = TRUE]
                /\ UNCHANGED <<offset, all_beers, idx>>
           ELSE /\ all_beers' = all_beers \o beers
                /\ IF last_page(beers)
                   THEN pc' = "loop" /\ idx' = 1 /\ UNCHANGED offset
                   ELSE pc' = "list" /\ offset' = offset + PageSize /\ UNCHANGED idx
                /\ UNCHANGED run
  /\ UNCHANGED <<now, remote, store, conn, script, payload, beers_to_update, prev>>
  /\ UNCHANGED more

\* ------------------------------------------------ beer_database.main
StartSync ==
  /\ script = "none" /\ run.no < MaxRuns
  /\ script' = "sync" /\ pc' = "list" /\ conn' = "open"
  /\ offset' = 0 /\ all_beers' = <<>> /\ idx' = 0 /\ payload' = <<>>
  /\ work' = db /\ tx' = <<>>
  /\ reqLog' = <<>> /\ pageLog' = <<>>
  /\ prev' = run /\ run' = NewRun(run.no + 1)
  /\ UNCHANGED <<now, remote, db, beers_to_update>>
  /\ exited' = <<>> /\ closes' = 0
  /\ UNCHANGED <<breweries, endless, peer, moved, failed>>

\* what the interpreter returns when the module's code runs to its end
ExitAtEnd == 0
\* try: main() except Exception as e: print(...), and the module ends
main_guard(cause) == [cause |-> cause, status |-> ExitAtEnd]

\* load_config raises (no file, no YAML): main raises at its first statement,
\* __main__ prints "Unexpected error" and the process ends
LoadConfigFails ==
  /\ script = "none"
  /\ exited' = <<main_guard("config")>>
  /\ conn' = "none" /\ closes' = 0
  /\ UNCHANGED <<now, remote, store, script, pc, locals, reqLog, pageLog, run, prev,
                 breweries, endless, peer, moved, failed>>

\* psycopg2.connect raises: main prints "Database connection failed" and returns
ConnectFails ==
  /\ script = "none"
  /\ exited' = <<[cause |-> "connect", status |-> ExitAtEnd]>>
  /\ conn' = "none" /\ closes' = 0
  /\ UNCHANGED <<now, remote, store, script, pc, locals, reqLog, pageLog, run, prev,
                 breweries, endless, peer, moved, failed>>

\* (mutant) the skip marks the row as checked: record_updated_at = NOW()
GateTouch ==
  /\ script = "sync" /\ pc = "loop"
  /\ IF idx > Len(all_beers)
     THEN /\ pc' = "finally"
          /\ run' = [run EXCEPT !.outcome = "ok"]
          /\ UNCHANGED <<tx, idx, work>>
     ELSE /\ tx' = IF tx = <<>> THEN <<now>> ELSE tx
          /\ IF up_to_date(fetch_beer_from_db(work, all_beers[idx].bid), all_beers[idx])
             THEN /\ idx' = idx + 1 /\ pc' = "loop"
                  /\ run' = [run EXCEPT !.skipped = @ \cup {all_beers[idx].bid}]
                  /\ work' = {IF r.beer_id = all_beers[idx].bid
                              THEN [r EXCEPT !.record_updated_at = tx'[1]] ELSE r : r \in work}
             ELSE /\ idx' = idx /\ pc' = "detail"
                  /\ UNCHANGED <<run, work>>
  /\ reqLog' = <<>> /\ pageLog' = <<>>
  /\ UNCHANGED <<now, remote, db, conn, script, offset, all_beers, payload,
                 beers_to_update, prev>>
  /\ UNCHANGED more

\* the head of the for loop: the freshness gate, or the end of the list
Gate ==
  /\ script = "sync" /\ pc = "loop"
  /\ IF idx > Len(all_beers)
     THEN /\ pc' = "finally"
          /\ run' = [run EXCEPT !.outcome = "ok"]
          /\ UNCHANGED <<tx, idx>>
     ELSE /\ tx' = IF tx = <<>> THEN <<now>> ELSE tx
          /\ IF up_to_date(fetch_beer_from_db(work, all_beers[idx].bid), all_beers[idx])
             THEN /\ idx' = idx + 1 /\ pc' = "loop"
                  /\ run' = [run EXCEPT !.skipped = @ \cup {all_beers[idx].bid}]
             ELSE /\ idx' = idx /\ pc' = "detail"
                  /\ UNCHANGED run
  /\ reqLog' = <<>> /\ pageLog' = <<>>
  /\ UNCHANGED <<now, remote, db, work, conn, script, offset, all_beers, payload,
                 beers_to_update, prev>>
  /\ UNCHANGED more

\* beer_database.fetch_beer_details: one pass of the while loop
fetch_beer_details(status, h) ==
  /\ script = "sync" /\ pc = "detail"
  /\ LET beer_id == all_beers[idx].bid
         throttled == rate_limited(status, h)
     IN /\ throttled => Throttles < MaxThrottle
        /\ reqLog' = Logged([fn |-> "detail", arg |-> beer_id, status |-> status, h |-> h,
                             body |-> Body(beer_id), done |-> ~throttled])
        /\ IF throttled
           THEN UNCHANGED <<pc, payload, run>>
           ELSE IF raises(status)
           THEN /\ pc' = "except"
                /\ run' = [run EXCEPT !.httpErr = TRUE]
                /\ UNCHANGED payload
           ELSE /\ pc' = "upsert"
                /\ payload' = <<Body(beer_id)>>
                /\ UNCHANGED run
  /\ UNCHANGED <<now, remote, store, conn, script, offset, all_beers, idx,
                 beers_to_update, pageLog, prev>>
  /\ UNCHANGED more

\* beer_data, user_data, upsert_beer(cursor, beer_data, user_data); execute may raise
Upsert(ok) ==
  /\ script = "sync" /\ pc = "upsert"
  /\ IF ok
     THEN /\ work' = upsert_beer(work,
                       [beer_id |-> payload[1].bid, total_count |-> payload[1].total_count],
                       [user_recent_checkin |-> all_beers[idx].recent_created_at,
                        user_checkin_count |-> all_beers[idx].count],
                       tx[1])
          /\ pc' = "commit"
          /\ UNCHANGED run
     ELSE /\ pc' = "except"
          /\ run' = [run EXCEPT !.failedAt = idx]
          /\ UNCHANGED work
  /\ reqLog' = <<>>
  /\ UNCHANGED <<now, remote, db, tx, conn, script, locals, pageLog, prev>>
  /\ UNCHANGED more

\* connection.commit(); may raise. The next transaction starts later than this
\* one did: the clock moves on
Commit(ok) ==
  /\ script = "sync" /\ pc = "commit"
  /\ IF ok
     THEN /\ now < MaxClock
          /\ now' = now + 1
          /\ db' = work /\ tx' = <<>>
          /\ idx' = idx + 1 /\ pc' = "loop"
          /\ run' = [run EXCEPT !.committed = @ \cup {all_beers[idx].bid}]
     ELSE /\ pc' = "except"
          /\ run' = [run EXCEPT !.failedAt = idx]
          /\ UNCHANGED <<now, db, tx, idx>>
  /\ UNCHANGED <<remote, work, conn, script, offset, all_beers, payload,
                 beers_to_update, reqLog, pageLog, prev>>
  /\ UNCHANGED more

\* (mutant) the except clause without the rollback
ExceptNoRollback ==
  /\ script = "sync" /\ pc = "except"
  /\ pc' = "finally"
  /\ run' = [run EXCEPT !.outcome = "aborted"]
  /\ reqLog' = <<>> /\ pageLog' = <<>>
  /\ UNCHANGED <<now, remote, store, conn, script, locals, prev>>
  /\ UNCHANGED more

\* except Exception: connection.rollback()
Except ==
  /\ script = "sync" /\ pc = "except"
  /\ work' = db /\ tx' = <<>>
  /\ pc' = "finally"
  /\ run' = [run EXCEPT !.outcome = "aborted"]
  /\ reqLog' = <<>> /\ pageLog' = <<>>
  /\ UNCHANGED <<now, remote, db, conn, script, locals, prev>>
  /\ UNCHANGED more

\* (mutant) the two close() calls at the end of the try block, where an
\* aborted run does not reach them
FinallyLeak ==
  /\ script = "sync" /\ pc = "finally"
  /\ script' = "none" /\ pc' = "idle"
  /\ IF run.outcome = "aborted"
     THEN UNCHANGED <<conn, closes, work, tx>>
     ELSE conn' = "closed" /\ closes' = closes + 1 /\ work' = db /\ tx' = <<>>
  /\ offset' = 0 /\ all_beers' = <<>> /\ idx' = 0 /\ payload' = <<>>
  /\ run' = Summary(run)
  /\ exited' = <<[cause |-> "done", status |-> ExitAtEnd]>>
  /\ UNCHANGED <<now, remote, db, beers_to_update, reqLog, pageLog, prev,
                 breweries, endless, peer, moved, failed>>

\* finally: cursor.close(); connection.close()
Finally ==
  /\ script = "sync" /\ pc = "finally"
  /\ conn' = "closed" /\ script' = "none" /\ pc' = "idle"
  /\ work' = db /\ tx' = <<>>
  /\ offset' = 0 /\ all_beers' = <<>> /\ idx' = 0 /\ payload' = <<>>
  /\ run' = Summary(run)
  /\ UNCHANGED <<now, remote, db, beers_to_update, reqLog, pageLog, prev>>
  /\ exited' = <<[cause |-> "done", status |-> ExitAtEnd]>> /\ closes' = closes + 1
  /\ UNCHANGED <<breweries, endless, peer, moved, failed>>

\* the sync process is killed: the server drops the connection and its open transaction
Kill ==
  /\ script = "sync"
  /\ conn' = "closed" /\ script' = "none" /\ pc' = "idle"
  /\ work' = db /\ tx' = <<>>
  /\ offset' = 0 /\ all_beers' = <<>> /\ idx' = 0 /\ payload' = <<>>
  /\ run' = Summary([run EXCEPT !.outcome = "killed"])
  /\ reqLog' = <<>> /\ pageLog' = <<>>
  /\ UNCHANGED <<now, remote, db, beers_to_update, prev>>
  /\ exited' = <<[cause |-> "killed", status |-> 137]>>
  /\ UNCHANGED <<closes, breweries, endless, peer, moved, failed>>

\* ------------------------------------------ single_field_lookup.main
\* connect, SELECT beer_id FROM beers WHERE brewery_id IS NULL, fetchall()
StartLookup ==
  /\ script = "none"
  /\ script' = "maint" /\ pc' = "lookup" /\ conn' = "open"
  /\ work' = db /\ tx' = <<now>>
  /\ beers_to_update' \in Orders({r.beer_id : r \in {x \in db : x.brewery_id = NULL}})
  /\ idx' = 1 /\ payload' = <<>>
  /\ reqLog' = <<>>
  /\ UNCHANGED <<now, remote, db, offset, all_beers, pageLog, run, prev>>
  /\ closes' = 0
  /\ UNCHANGED <<exited, breweries, endless, peer, moved>>
  /\ failed' = {}

\* connect, and the SELECT raises: the statement has opened a transaction
LookupSelectFails ==
  /\ script = "none"
  /\ script' = "maint" /\ pc' = "lookup_except" /\ conn' = "open"
  /\ work' = db /\ tx' = <<now>>
  /\ beers_to_update' = <<>> /\ idx' = 0 /\ payload' = <<>>
  /\ reqLog' = <<>>
  /\ closes' = 0
  /\ UNCHANGED <<now, remote, db, offset, all_beers, pageLog, run, prev,
                 exited, breweries, endless, peer, moved>>
  /\ failed' = {}

\* the outer except Exception: connection.rollback()
LookupExcept ==
  /\ script = "maint" /\ pc = "lookup_except"
  /\ work' = db /\ tx' = <<>>
  /\ pc' = "lookup_aborted"
  /\ UNCHANGED <<now, remote, db, conn, script, locals, reqLog, pageLog, run, prev, more>>

\* single_field_lookup.fetch_beer_details: one pass of the while loop; an HTTP
\* error is caught by the try of the for loop, which rolls back and goes on
lookup_fetch_beer_details(status, h) ==
  /\ script = "maint" /\ pc = "lookup" /\ idx <= Len(beers_to_update)
  /\ LET beer_id == beers_to_update[idx]
         throttled == lookup_rate_limited(status, h)
     IN /\ throttled => Throttles < MaxThrottle
        /\ reqLog' = Logged([fn |-> "lookup", arg |-> beer_id, status |-> status, h |-> h,
                             body |-> Body(beer_id), done |-> ~throttled])
        /\ IF throttled
           THEN UNCHANGED <<pc, payload, idx, work, tx, failed>>
           ELSE IF raises(status)
           THEN /\ work' = db /\ tx' = <<>>
                /\ idx' = idx + 1
                /\ failed' = failed \cup {beer_id}
                /\ UNCHANGED <<pc, payload>>
           ELSE /\ pc' = "update"
                /\ payload' = <<Body(beer_id)>>
                /\ UNCHANGED <<idx, work, tx, failed>>
  /\ UNCHANGED <<now, remote, db, conn, script, offset, all_beers, beers_to_update,
                 pageLog, run, prev>>
  /\ UNCHANGED <<exited, closes, breweries, endless, peer, moved>>

\* (mutant) no try inside the for loop: the exception ends the loop
LookupUpdateAborts(ok) ==
  /\ script = "maint" /\ pc = "update"
  /\ IF ok
     THEN /\ db' = update_brewery_id(work, beers_to_update[idx], payload[1].brewery_id)
          /\ work' = db' /\ tx' = <<>>
          /\ idx' = idx + 1 /\ pc' = "lookup"
          /\ UNCHANGED failed
     ELSE /\ UNCHANGED <<db, work, tx, idx>>
          /\ pc' = "lookup_except"
          /\ failed' = failed \cup {beers_to_update[idx]}
  /\ payload' = <<>>
  /\ reqLog' = <<>>
  /\ UNCHANGED <<now, remote, conn, script, offset, all_beers, beers_to_update,
                 pageLog, run, prev>>
  /\ UNCHANGED <<exited, closes, breweries, endless, peer, moved>>

\* brewery_id = beer_details["brewery"]["brewery_id"]; update_brewery_id(cursor,
\* beer_id, brewery_id); connection.commit(); each may raise (a missing field, a
\* storage error), and then the except of the loop rolls back and goes on
LookupUpdate(ok) ==
  /\ script = "maint" /\ pc = "update"
  /\ IF ok
     THEN /\ db' = update_brewery_id(work, beers_to_update[idx], payload[1].brewery_id)
          /\ work' = db'
          /\ UNCHANGED failed
     ELSE /\ work' = db /\ UNCHANGED db
          /\ failed' = failed \cup {beers_to_update[idx]}
  /\ tx' = <<>>
  /\ idx' = idx + 1 /\ pc' = "lookup" /\ payload' = <<>>
  /\ reqLog' = <<>>
  /\ UNCHANGED <<now, remote, conn, script, offset, all_beers, beers_to_update,
                 pageLog, run, prev>>
  /\ UNCHANGED <<exited, closes, breweries, endless, peer, moved>>

\* the list is done, or the run was aborted; finally: cursor.close();
\* connection.close()
LookupFinally ==
  /\ script = "maint"
  /\ \/ pc = "lookup" /\ idx > Len(beers_to_update)
     \/ pc = "lookup_aborted"
  /\ conn' = "closed" /\ script' = "none" /\ pc' = "idle"
  /\ work' = db /\ tx' = <<>>
  /\ beers_to_update' = <<>> /\ idx' = 0
  /\ reqLog' = <<>>
  /\ UNCHANGED <<now, remote, db, offset, all_beers, payload, pageLog, run, prev>>
  /\ closes' = closes + 1
  /\ UNCHANGED <<exited, breweries, endless, peer, moved>>
  /\ failed' = {}

\* ------------------------- a second single_field_lookup.main process
\* connect, SELECT beer_id FROM beers WHERE brewery_id IS NULL, fetchall()
PeerStart ==
  /\ peer.pc = "idle"
  /\ \E q \in Orders({r.beer_id : r \in {x \in db : x.brewery_id = NULL}}) :
       peer' = [pc |-> "lookup", beers_to_update |-> q, idx |-> 1]
  /\ UNCHANGED <<now, remote, store, conn, script, pc, locals, reqLog, pageLog, run, prev,
                 exited, closes, breweries, endless, moved, failed>>

\* one pass of its for loop: fetch_beer_details, update_brewery_id and commit,
\* or an exception, rollback and the next row. The UPDATE acts on the row as
\* committed by then, and the other connection sees what was committed
PeerStep(ok) ==
  /\ peer.pc = "lookup" /\ peer.idx <= Len(peer.beers_to_update)
  /\ IF ok
     THEN /\ db' = update_brewery_id(db, peer.beers_to_update[peer.idx],
                                     BreweryOf(peer.beers_to_update[peer.idx]))
          /\ work' = db'
     ELSE UNCHANGED <<db, work>>
  /\ peer' = [peer EXCEPT !.idx = @ + 1]
  /\ UNCHANGED <<now, remote, tx, conn, script, pc, locals, reqLog, pageLog, run, prev,
                 exited, closes, breweries, endless, moved, failed>>

\* its list is done; finally: cursor.close(); connection.close()
PeerFinally ==
  /\ peer.pc = "lookup" /\ peer.idx > Len(peer.beers_to_update)
  /\ peer' = NoPeer
  /\ UNCHANGED <<now, remote, store, conn, script, pc, locals, reqLog, pageLog, run, prev,
                 exited, closes, breweries, endless, moved, failed>>

\* ------------------------------------------------------------- spec
Init ==
  /\ now = 0
  /\ remote = <<>>
  /\ db = {} /\ work = {} /\ tx = <<>>
  /\ conn = "none" /\ script = "none" /\ pc = "idle"
  /\ offset = 0 /\ all_beers = <<>> /\ idx = 0 /\ payload = <<>>
  /\ beers_to_update = <<>>
  /\ reqLog = <<>> /\ pageLog = <<>>
  /\ run = NoRun /\ prev = NoRun
  /\ exited = <<>> /\ closes = 0 /\ breweries = {} /\ endless = FALSE
  /\ peer = NoPeer /\ moved = {} /\ failed = {}

Next ==
  \/ \E b \in Beers : Checkin(b)
  \/ LoadConfigFails
  \/ ConnectFails
  \/ StartSync
  \/ \E s \in Statuses : \E h \in HeadersOf(s) : fetch_rated_beers(s, h)
  \/ Gate
  \/ \E s \in Statuses : \E h \in HeadersOf(s) : fetch_beer_details(s, h)
  \/ \E ok \in BOOLEAN : Upsert(ok)
  \/ \E ok \in BOOLEAN : Commit(ok)
  \/ Except
  \/ Finally
  \/ Kill

\* the sync script against an API that throttles and fails and a store that fails
Spec == Init /\ [][Next]_vars

\* both scripts, one at a time, on the same table; the data changes between runs
NextBoth ==
  \/ \E b \in Beers : script = "none" /\ Checkin(b)
  \/ StartSync
  \/ \E s \in Statuses : \E h \in HeadersOf(s) : fetch_rated_beers(s, h)
  \/ Gate
  \/ \E s \in Statuses : \E h \in HeadersOf(s) : fetch_beer_details(s, h)
  \/ \E ok \in BOOLEAN : Upsert(ok)
  \/ \E ok \in BOOLEAN : Commit(ok)
  \/ Except
  \/ Finally
  \/ StartLookup
  \/ LookupSelectFails
  \/ LookupExcept
  \/ \E s \in Statuses : \E h \in HeadersOf(s) : lookup_fetch_beer_details(s, h)
  \/ \E ok \in BOOLEAN : LookupUpdate(ok)
  \/ LookupFinally

SpecBoth == Init /\ [][NextBoth]_vars

\* fetch_rated_beers alone, against lists of every length up to MaxItems
InitPages ==
  /\ now = 0
  /\ \E n \in 0..MaxItems :
       remote = [k \in 1..n |-> [bid |-> k, recent_created_at |-> Stamp(0, TzOf(k)),
                                 count |-> 1]]
  /\ db = {} /\ work = {} /\ tx = <<>>
  /\ conn = "open" /\ script = "sync" /\ pc = "list"
  /\ offset = 0 /\ all_beers = <<>> /\ idx = 0 /\ payload = <<>>
  /\ beers_to_update = <<>>
  /\ reqLog = <<>> /\ pageLog = <<>>
  /\ run = NewRun(1) /\ prev = NoRun
  /\ exited = <<>> /\ closes = 0 /\ breweries = {} /\ endless = FALSE
  /\ peer = NoPeer /\ moved = {} /\ failed = {}

NextPages == \E s \in Statuses : \E h \in HeadersOf(s) : fetch_rated_beers(s, h)

SpecPages == InitPages /\ [][NextPages]_vars

\* fetch_rated_beers against a list of any length up to MaxItems or against an
\* endless endpoint
InitTerm ==
  /\ now = 0
  /\ endless \in BOOLEAN
  /\ \E n \in 0..MaxItems :
       /\ endless => n = 0
       /\ remote = [k \in 1..n |-> [bid |-> k, recent_created_at |-> Stamp(0, TzOf(k)),
                                    count |-> 1]]
  /\ db = {} /\ work = {} /\ tx = <<>>
  /\ conn = "open" /\ script = "sync" /\ pc = "list"
  /\ offset = 0 /\ all_beers = <<>> /\ idx = 0 /\ payload = <<>>
  /\ beers_to_update = <<>>
  /\ reqLog = <<>> /\ pageLog = <<>>
  /\ run = NewRun(1) /\ prev = NoRun
  /\ exited = <<>> /\ closes = 0 /\ breweries = {}
  /\ peer = NoPeer /\ moved = {} /\ failed = {}

\* the while loop, followed for MaxPages pages
NextTerm ==
  /\ offset < MaxPages * PageSize
  /\ \E s \in Statuses : \E h \in HeadersOf(s) : fetch_rated_beers(s, h)

\* the loop is sequential code: a call returns, a sleep ends, the next pass begins
SpecTerm == InitTerm /\ [][NextTerm]_vars /\ WF_vars(NextTerm)

\* the sync script over lists in which a beer may occur in several entries
InitAgg ==
  /\ now = 0
  /\ \E n \in 0..MaxEntries :
       remote \in [1..n -> {[bid |-> b, recent_created_at |-> Stamp(0, TzOf(b)), count |-> c] :
                              b \in Beers, c \in 1..MaxCount}]
  /\ db = {} /\ work = {} /\ tx = <<>>
  /\ conn = "none" /\ script = "none" /\ pc = "idle"
  /\ offset = 0 /\ all_beers = <<>> /\ idx = 0 /\ payload = <<>>
  /\ beers_to_update = <<>>
  /\ reqLog = <<>> /\ pageLog = <<>>
  /\ run = NoRun /\ prev = NoRun
  /\ exited = <<>> /\ closes = 0 /\ breweries = {} /\ endless = FALSE
  /\ peer = NoPeer /\ moved = {} /\ failed = {}

NextAgg ==
  \/ StartSync
  \/ \E s \in Statuses : \E h \in HeadersOf(s) : fetch_rated_beers(s, h)
  \/ Gate
  \/ \E s \in Statuses : \E h \in HeadersOf(s) : fetch_beer_details(s, h)
  \/ \E ok \in BOOLEAN : Upsert(ok)
  \/ \E ok \in BOOLEAN : Commit(ok)
  \/ Except
  \/ Finally

SpecAgg == InitAgg /\ [][NextAgg]_vars

\* the table after a sync run that wrote a row for each of n beers
InitOverlap ==
  \E n \in 1..NBeers :
    /\ now = n
    /\ remote = [k \in 1..n |-> [bid |-> k, recent_created_at |-> Stamp(0, TzOf(k)),
                                  count |-> 1]]
    /\ db = {[beer_id |-> k, total_count |-> 1,
              user_recent_checkin |-> Stamp(0, TzOf(k)), user_checkin_count |-> 1,
              record_updated_at |-> k - 1, brewery_id |-> NULL] : k \in 1..n}
    /\ work = db /\ tx = <<>>
    /\ conn = "closed" /\ script = "none" /\ pc = "idle"
    /\ offset = 0 /\ all_beers = <<>> /\ idx = 0 /\ payload = <<>>
    /\ beers_to_update = <<>>
    /\ reqLog = <<>> /\ pageLog = <<>>
    /\ run = [NewRun(1) EXCEPT !.committed = 1..n, !.outcome = "ok"] /\ prev = NoRun
    /\ exited = <<[cause |-> "done", status |-> ExitAtEnd]>> /\ closes = 1
    /\ breweries = {} /\ endless = FALSE
    /\ peer = NoPeer /\ moved = {} /\ failed = {}

\* two maintenance runs that may overlap, and an API whose data changes
NextOverlap ==
  \/ \E b \in Beers : Move(b)
  \/ StartLookup
  \/ LookupSelectFails
  \/ LookupExcept
  \/ \E s \in Statuses : \E h \in HeadersOf(s) : lookup_fetch_beer_details(s, h)
  \/ \E ok \in BOOLEAN : LookupUpdate(ok)
  \/ LookupFinally
  \/ PeerStart
  \/ \E ok \in BOOLEAN : PeerStep(ok)
  \/ PeerFinally

SpecOverlap == InitOverlap /\ [][NextOverlap]_vars

\* ------------------------------------------------------------ claims
\* the instant a list entry's recent_created_at denotes
UtcOf(stamp) == stamp.local - stamp.off
\* the entry has a committed row that is at least as new as its last check-in
Stored(e) == \E r \in db : r.beer_id = e.bid /\ r.record_updated_at >= UtcOf(e.recent_created_at)
\* the entry has no row in the view, or its last check-in is newer than the row
Newer(e, view) ==
  \/ RowsOf(view, e.bid) = {}
  \/ \E r \in RowsOf(view, e.bid) : UtcOf(e.recent_created_at) > r.record_updated_at

\* C1: when the upsert or the commit of item k of the list raises, every other
\* item of the list, before and after k, is committed and in storage when the
\* run ends. (The code leaves the loop at the failure: violated.)
C1_PartialFailureIsolation ==
  (script = "sync" /\ pc = "finally" /\ run.failedAt /= 0) =>
    \A j \in 1..Len(all_beers) : j /= run.failedAt => Stored(all_beers[j])

\* C2: at the head of the loop the run goes on to the detail fetch exactly when
\* the item has no stored row or its recent_created_at, taken to UTC, is strictly
\* newer than the row's record_updated_at; otherwise it moves to the next item
\* and writes nothing.
C2_FreshnessGate ==
  [][(/\ script = "sync" /\ pc = "loop" /\ idx <= Len(all_beers)
      /\ script' = "sync" /\ <<pc, idx>>' /= <<pc, idx>>)
     => IF Newer(all_beers[idx], work)
        THEN pc' = "detail" /\ idx' = idx
        ELSE pc' = "loop" /\ idx' = idx + 1 /\ work' = work /\ db' = db]_vars

\* an existing row is found stale and the run goes on to fetch its detail
C2_Witness ==
  script = "sync" /\ pc = "detail" /\ RowsOf(work, all_beers[idx].bid) /= {}

\* C3: in a run that follows a run completed without failure, with the remote
\* data unchanged since that run started, no step goes to the detail fetch and
\* no step changes a row, committed or pending.
C3_Idempotence ==
  [][(script = "sync" /\ prev.outcome = "ok" /\ prev.stable /\ prev'.stable)
     => pc' /= "detail" /\ db' = db /\ work' = work]_vars

\* the second of two runs over the same two-beer list has skipped both beers
C3_Witness ==
  /\ script = "sync" /\ pc = "finally" /\ run.outcome = "ok"
  /\ prev.outcome = "ok" /\ prev.stable /\ Len(all_beers) = 2
  /\ \A j \in 1..2 : Stored(all_beers[j])

\* no list call of this fetch was answered 429
NoThrottling == \A k \in 1..Len(pageLog) : pageLog[k].status /= 429

\* C4: without throttling, a list of 25 * (n - 1) + k entries, k < 25, is fetched
\* with exactly n list calls, at offsets 0, 25, ..., 25 * (n - 1) in that order,
\* and fetch_rated_beers returns the pages in order: the list itself.
C4_Pagination ==
  (script = "sync" /\ NoThrottling) =>
    /\ \A k \in 1..Len(pageLog) : pageLog[k].offset = 25 * (k - 1)
    /\ pc = "list" => /\ offset = 25 * Len(pageLog)
                      /\ all_beers = SubSeq(remote, 1, offset)
    /\ (pc = "loop" /\ pageLog /= <<>>) =>
         /\ Len(pageLog) = (Len(remote) \div 25) + 1
         /\ Len(all_beers) = 25 * (Len(pageLog) - 1) + (Len(remote) % 25)
         /\ all_beers = remote

\* pages of 25, 25 and 1: three calls, 51 entries
C4_Witness ==
  /\ script = "sync" /\ pc = "loop" /\ NoThrottling
  /\ Len(pageLog) = 3 /\ Len(all_beers) = 51

\* the header reports a remaining quota of zero
QuotaZero(h) == h /= <<>> /\ h[1] = 0
\* the responses of the request so far: 429s and then one with status 200
BackOffThenSuccess ==
  /\ reqLog /= <<>> /\ Last(reqLog).status = 200
  /\ \A k \in 1..(Len(reqLog) - 1) : reqLog[k].status = 429
\* the function has returned the body of the last response to its caller, after
\* calls that all went to the same endpoint with the same parameters
ReturnedLast ==
  LET e == Last(reqLog)
  IN /\ e.done
     /\ \A k \in 1..Len(reqLog) : reqLog[k].fn = e.fn /\ reqLog[k].arg = e.arg
     /\ e.fn = "list" =>
          /\ pc \in {"list", "loop"}
          /\ SubSeq(all_beers, Len(all_beers) - Len(e.body) + 1, Len(all_beers)) = e.body
     /\ e.fn = "detail" => pc = "upsert" /\ payload = <<e.body>>
     /\ e.fn = "lookup" => pc = "update" /\ payload = <<e.body>>
\* a 429 is absorbed: the function is still in its loop, about to call again
Absorbed ==
  (reqLog /= <<>> /\ Last(reqLog).status = 429) =>
    /\ ~Last(reqLog).done
    /\ pc = (IF Last(reqLog).fn = "list" THEN "list"
             ELSE IF Last(reqLog).fn = "detail" THEN "detail" ELSE "lookup")

\* C5 as stated: after m responses with status 429 and one with status 200 the
\* fetch function has returned the body of the last response, after m + 1 calls
\* with the same parameters. (beer_database.fetch_beer_details does not return
\* on a 200 whose X-Ratelimit-Remaining is 0: violated.)
C5_BackOffAnySuccess == BackOffThenSuccess => ReturnedLast

\* C5, amended: the same, for a success response that does not report a
\* remaining quota of zero to beer_database.fetch_beer_details; and a 429 never
\* reaches the caller.
C5_BackOff ==
  /\ (/\ BackOffThenSuccess
      /\ ~(Last(reqLog).fn = "detail" /\ QuotaZero(Last(reqLog).h))) => ReturnedLast
  /\ Absorbed

\* one 429 and then a success, in each of the three functions' positions
C5_Witness ==
  /\ Len(reqLog) = 2 /\ reqLog[1].status = 429 /\ reqLog[2].status = 200
  /\ reqLog[2].fn = "detail" /\ pc = "upsert" /\ payload = <<reqLog[2].body>>

\* at most one row per beer_id
Unique(view) == \A r1, r2 \in view : r1.beer_id = r2.beer_id => r1 = r2

\* C6: the table never holds two rows of one beer_id, a row once committed never
\* disappears, and an upsert leaves exactly one row of its beer_id, carrying the
\* values passed to it, and no other row changed; a commit publishes that view.
C6_UpsertLastWriterWins ==
  /\ [](Unique(db) /\ Unique(work))
  /\ [][\A r \in db : RowsOf(db', r.beer_id) /= {}]_vars
  /\ [][db' /= db => db' = work]_vars
  /\ [][(script = "sync" /\ pc = "upsert" /\ pc' = "commit") =>
          LET b == payload[1].bid
          IN /\ \E r \in work' :
                  /\ RowsOf(work', b) = {r}
                  /\ r.total_count = payload[1].total_count
                  /\ r.user_recent_checkin = all_beers[idx].recent_created_at
                  /\ r.user_checkin_count = all_beers[idx].count
             /\ \A r \in work : r.beer_id /= b => r \in work'
             /\ \A r \in work' : r.beer_id /= b => r \in work]_vars

\* a beer is upserted a second time with other values
C6_Witness ==
  /\ script = "sync" /\ pc = "commit"
  /\ \E r \in db, r2 \in work :
       /\ r.beer_id = all_beers[idx].bid /\ r2.beer_id = r.beer_id
       /\ r2.user_checkin_count /= r.user_checkin_count

\* C7 as stated: a list or detail response with a status other than success and
\* 429 makes the fetch function raise at once. (beer_database.fetch_beer_details
\* retries such a response when its X-Ratelimit-Remaining is 0: violated.)
C7_AnyErrorAborts ==
  (/\ reqLog /= <<>> /\ Last(reqLog).fn \in {"list", "detail"}
   /\ Last(reqLog).status \notin {200, 429})
  => Last(reqLog).done /\ pc = "except"

\* C7, amended: a list response with such a status, and a detail response with
\* such a status that does not report a remaining quota of zero, makes the fetch
\* function raise at once; from then on the run makes no API call and no write,
\* it rolls back, and it ends with the connection closed.
C7_ErrorAborts ==
  /\ []((/\ reqLog /= <<>> /\ Last(reqLog).fn \in {"list", "detail"}
         /\ Last(reqLog).status \notin {200, 429}
         /\ ~(Last(reqLog).fn = "detail" /\ QuotaZero(Last(reqLog).h)))
        => Last(reqLog).done /\ pc = "except" /\ run.httpErr)
  /\ []((script = "sync" /\ run.httpErr) => pc \in {"except", "finally"})
  /\ []((script = "sync" /\ run.httpErr /\ pc = "finally") => work = db /\ tx = <<>>)
  /\ [][(script = "sync" /\ run.httpErr) =>
          /\ reqLog' \in {reqLog, <<>>} /\ pageLog' \in {pageLog, <<>>}
          /\ db' = db /\ work' \in {work, db}
          /\ script' = "none" => conn' = "closed" /\ work' = db]_vars

\* a detail fetch failed with the second beer of the list still to come
C7_Witness ==
  /\ script = "sync" /\ pc = "finally" /\ run.httpErr
  /\ idx >= 1 /\ idx < Len(all_beers)

\* C8: every response to a list call or a detail call that has status 429 or
\* reports a remaining quota of zero is retried, not returned; a response without
\* the header and another status ends the call. (fetch_rated_beers does not
\* read the header: violated.)
C8_QuotaThrottling ==
  \A k \in 1..Len(reqLog) :
    reqLog[k].fn \in {"list", "detail"} =>
      /\ (reqLog[k].status = 429 \/ QuotaZero(reqLog[k].h)) => ~reqLog[k].done
      /\ (reqLog[k].status /= 429 /\ reqLog[k].h = <<>>) => reqLog[k].done

\* C9: no step that interrupts, aborts or ends a run changes a committed row;
\* the pending rows are those of the one item whose commit is awaited or failed; a run that
\* completes leaves a row for every item of its list; and a run that follows an
\* interrupted or aborted one over unchanged data fetches no detail for a beer
\* that run committed.
C9_RestartSafety ==
  /\ [][(script = "sync" /\ (script' = "none" \/ pc' \in {"except", "finally"}))
        => db' = db]_vars
  /\ [](\A r \in work \ db :
          script = "sync" /\ pc \in {"commit", "except"} /\ r.beer_id = all_beers[idx].bid)
  /\ []((script = "sync" /\ pc = "finally" /\ run.outcome = "ok") =>
          \A j \in 1..Len(all_beers) : \E r \in db : r.beer_id = all_beers[j].bid)
  /\ [][(/\ script = "sync" /\ prev.outcome \in {"killed", "aborted"} /\ prev.stable
         /\ pc = "loop" /\ pc' = "detail")
        => all_beers[idx].bid \notin prev.committed]_vars

\* the run after an interrupted one skipped what that one committed and wrote the rest
C9_Witness ==
  /\ script = "sync" /\ pc = "finally" /\ run.outcome = "ok"
  /\ prev.outcome \in {"killed", "aborted"} /\ prev.stable
  /\ prev.committed /= {} /\ run.committed /= {}
  /\ prev.committed \cap run.committed = {}

\* the record_updated_at values of a beer in a view
StampOf(view, b) == {r.record_updated_at : r \in RowsOf(view, b)}

\* C10: every upsert sets the row's record_updated_at to NOW(), which is later
\* than the value the row had; a committed record_updated_at changes only by the
\* commit of an upsert, and then it grows; a pending one changes only by an
\* upsert or by going back to the committed one.
C10_LastSynchronized ==
  /\ [](tx /= <<>> => tx[1] <= now)
  /\ [][(script = "sync" /\ pc = "upsert" /\ pc' = "commit") =>
          /\ StampOf(work', payload[1].bid) = {tx[1]}
          /\ \A t \in StampOf(work, payload[1].bid) : tx[1] > t]_vars
  /\ [][\A b \in Beers : StampOf(db', b) /= StampOf(db, b) =>
          /\ script = "sync" /\ pc = "commit"
          /\ \A t \in StampOf(db, b), u \in StampOf(db', b) : u > t]_vars
  /\ [][\A b \in Beers : StampOf(work', b) /= StampOf(work, b) =>
          \/ script = "sync" /\ pc = "upsert"
          \/ StampOf(work', b) = StampOf(db', b)]_vars

\* a row that the maintenance run has completed is upserted again
C10_Witness ==
  /\ script = "sync" /\ pc = "commit"
  /\ \E r \in db, r2 \in work :
       /\ r2.beer_id = r.beer_id /\ r.brewery_id /= NULL
       /\ r2.brewery_id = r.brewery_id
       /\ r2.record_updated_at > r.record_updated_at
\* C11: a process of the main script that ran to completion ended with status
\* 0; one that could not load its configuration or could not connect ended with
\* a status other than 0, having made no API call and no storage write. (Both
\* fatal cases end with status 0: violated.)
C11_ExitStatus ==
  exited /= <<>> =>
    /\ exited[1].cause = "done" => exited[1].status = 0
    /\ exited[1].cause \in {"config", "connect"} =>
         /\ exited[1].status /= 0
         /\ reqLog = <<>> /\ pageLog = <<>> /\ work = db /\ tx = <<>>

\* C12: in both scripts a connection is closed at most once, and exactly once
\* when its run has ended, whatever the way the run ended; a run that failed has
\* rolled back (no open transaction, no pending row) when it comes to close;
\* and nothing touches the storage through a closed connection.
C12_Cleanup ==
  /\ [](closes <= 1)
  /\ [](script /= "none" => conn = "open" /\ closes = 0)
  /\ []((script = "none" /\ conn /= "none") => conn = "closed" /\ closes = 1)
  /\ []((script = "sync" /\ pc = "finally" /\ run.outcome = "aborted")
        => work = db /\ tx = <<>>)
  /\ []((script = "maint" /\ pc = "lookup_aborted") => work = db /\ tx = <<>>)
  /\ [][(conn = "closed" /\ conn' = "closed") => UNCHANGED <<db, work, tx>>]_vars
  /\ [][closes' /= closes =>
          \/ closes' = 0 /\ conn' = "open" /\ script = "none"
          \/ closes' = closes + 1 /\ conn = "open" /\ conn' = "closed"]_vars

\* a sync run that was aborted has ended, its connection closed once, and the
\* table holds what was committed
C12_Witness ==
  /\ script = "none" /\ conn = "closed" /\ closes = 1
  /\ run.outcome = "aborted" /\ db /= {}

\* the sum of user_checkin_count over the rows of a view
RECURSIVE SumCounts(_)
SumCounts(view) ==
  IF view = {} THEN 0
  ELSE LET r == CHOOSE x \in view : TRUE
       IN r.user_checkin_count + SumCounts(view \ {r})

\* C13: when the first run over a list has completed without a failure, the
\* stored user_checkin_count values add up to the total of the counts of all
\* list entries, entries of the same beer included. (The count of one entry is
\* stored as it is: violated.)
C13_Aggregation ==
  (script = "none" /\ run.no = 1 /\ run.outcome = "ok") => SumCounts(db) = Checkins

\* the row but for its brewery_id
Rest(r) == [beer_id |-> r.beer_id, total_count |-> r.total_count,
            user_recent_checkin |-> r.user_recent_checkin,
            user_checkin_count |-> r.user_checkin_count,
            record_updated_at |-> r.record_updated_at]

\* C14: no step of a maintenance run, alone or overlapping another one, inserts
\* or deletes a row or changes a column other than brewery_id, and none changes
\* a brewery_id that is set. (The UPDATE has no "brewery_id IS NULL" condition:
\* a run overwrites what an overlapping run has set. Violated.)
C14_MaintenanceFrame ==
  [][/\ {Rest(r) : r \in db'} = {Rest(r) : r \in db}
     /\ \A r \in db : r.brewery_id /= NULL => r \in db']_vars

\* C15: every beer a run has committed has the row of its producer in the
\* producers' table, written with it. (No statement of either script writes
\* that table: violated at the first commit.)
C15_ProducerUpsert ==
  \A b \in run.committed : \E p \in breweries : p.brewery_id = BreweryOf(b)

\* the last response was a success with fewer than PageSize items
ShortPage(log) ==
  log /= <<>> /\ Last(log).status = 200 /\ Len(Last(log).body) < PageSize

\* C16: fetch_rated_beers leaves its loop only on a success response with fewer
\* than 25 items (it returns) or on a response with an error status other than
\* 429 (it raises), and it returns as soon as it has such a short page; with
\* finitely many 429 responses it does leave the loop when the list is finite;
\* against an endpoint with 25 items at every offset it never returns.
C16_Termination ==
  /\ [][(pc = "list" /\ pc' /= "list") =>
          \/ pc' = "loop" /\ ShortPage(reqLog')
          \/ pc' = "except" /\ Last(reqLog').status \notin {200, 429}]_vars
  /\ [](ShortPage(reqLog) => pc = "loop")
  /\ [](endless => pc /= "loop")
  /\ (~endless => <>(pc /= "list"))

\* the endless endpoint has served two full pages and the loop goes on
C16_Witness ==
  endless /\ pc = "list" /\ Len(all_beers) >= 2 * PageSize /\ offset >= 2 * PageSize

\* the list calls of this fetch that were not answered 429, in order
Served == SelectSeq(pageLog, LAMBDA c : c.status /= 429)
Throttled == SelectSeq(pageLog, LAMBDA c : c.status = 429)

\* C17: a 429 to a list call leaves offset and accumulator as they are and the
\* loop goes on; the call after a 429 has the offset of the throttled one; the
\* offset moves only by 25 and only after a success with a full page; so the
\* calls that were served are at offsets 0, 25, 50, ... once each, and what is
\* returned is the list itself, as without throttling.
C17_ThrottledPagination ==
  /\ [][(Len(pageLog') = Len(pageLog) + 1 /\ Last(pageLog').status = 429) =>
          offset' = offset /\ all_beers' = all_beers /\ pc' = "list"]_vars
  /\ [](\A k \in 2..Len(pageLog) :
          pageLog[k - 1].status = 429 => pageLog[k].offset = pageLog[k - 1].offset)
  /\ [][offset' /= offset =>
          /\ offset' = offset + 25
          /\ Last(pageLog').status = 200 /\ Len(Last(reqLog').body) = 25]_vars
  /\ [](\A k \in 1..Len(Served) : Served[k].offset = 25 * (k - 1))
  /\ []((pc = "loop" /\ pageLog /= <<>>) =>
          /\ all_beers = remote
          /\ Len(Served) = (Len(remote) \div 25) + 1)

\* a list of 51 entries was returned whole after throttling at two offsets
C17_Witness ==
  /\ script = "sync" /\ pc = "loop" /\ Len(all_beers) = 51 /\ all_beers = remote
  /\ \E j, k \in 1..Len(Throttled) : Throttled[j].offset /= Throttled[k].offset

\* C18: the step that skips an item issues no call and writes nothing, and it
\* moves the loop to the next entry; for the rest of the run no detail call, no
\* upsert and no commit is made for a skipped beer, and its row, committed or
\* as seen by the connection, record_updated_at included, stays what it was.
C18_SkipNoEffect ==
  /\ [][(script = "sync" /\ script' = "sync" /\ run'.skipped /= run.skipped) =>
          /\ pc = "loop" /\ pc' = "loop" /\ idx' = idx + 1
          /\ run'.skipped = run.skipped \cup {all_beers[idx].bid}
          /\ db' = db /\ work' = work /\ reqLog' = <<>>
          /\ run'.committed = run.committed]_vars
  /\ [](script = "sync" =>
          /\ \A k \in 1..Len(reqLog) :
               reqLog[k].fn = "detail" => reqLog[k].arg \notin run.skipped
          /\ pc \in {"detail", "upsert", "commit"} => all_beers[idx].bid \notin run.skipped
          /\ run.committed \cap run.skipped = {})
  /\ [][script = "sync" =>
          \A b \in run.skipped : /\ RowsOf(db', b) = RowsOf(db, b)
                                  /\ RowsOf(work', b) = RowsOf(work, b)]_vars

\* a run has skipped one beer of its list and committed the other
C18_Witness ==
  script = "sync" /\ run.skipped /= {} /\ run.committed /= {}

\* C19: a pass of the maintenance loop that raises (an HTTP error, a missing
\* field, a storage error) leaves the table as committed, with nothing pending,
\* and the loop takes the next row; of the rows the loop has passed, those whose
\* pass raised still have no brewery_id and all the others have the brewery_id
\* the API returned, wherever in the order the failing rows are.
C19_RowIsolation ==
  /\ [][(script = "maint" /\ failed' /= failed /\ script' = "maint") =>
          /\ failed' = failed \cup {beers_to_update[idx]}
          /\ db' = db /\ work' = db /\ tx' = <<>>
          /\ idx' = idx + 1 /\ pc' = "lookup"]_vars
  /\ []((script = "maint" /\ pc \in {"lookup", "update"}) =>
          \A j \in 1..Len(beers_to_update) :
            j < idx =>
              /\ RowsOf(db, beers_to_update[j]) /= {}
              /\ \A r \in RowsOf(db, beers_to_update[j]) :
                   r.brewery_id = IF r.beer_id \in failed THEN NULL ELSE BreweryOf(r.beer_id))
  /\ [](script = "maint" => failed \subseteq Range(beers_to_update))

\* the first row of two failed and the second one was committed
C19_Witness ==
  /\ script = "maint" /\ pc = "lookup" /\ idx = 3 /\ Len(beers_to_update) = 2
  /\ failed = {beers_to_update[1]}
  /\ \E r \in db : r.beer_id = beers_to_update[2] /\ r.brewery_id /= NULL

====
